---- MODULE Spec2Model ----
(***************************************************************************)
(* A model of bot.py, the RSS-news variant of the posting bot: one run of  *)
(* run_bot loads posted.json, fetches and filters the feed, and tries the  *)
(* fetched items in order until one is tweeted with an image.              *)
(*                                                                         *)
(* Python strings whose characters matter (titles, tag terms, MIME types,  *)
(* tweet texts) are sequences of one-character strings; URLs and links,    *)
(* which are only compared and tested for truthiness, are TLA+ strings.    *)
(* A Python object or dict with optional attributes is a record whose      *)
(* DOMAIN holds the attributes that are present.                           *)
(***************************************************************************)
EXTENDS Integers, Sequences, FiniteSets, TLC

VARIABLES
    file,            \* posted.json on disk
    file0,           \* posted.json as it was before the first invocation
    temp_files,      \* the temp_image<ext> files that exist in the working directory
    tweets,          \* the timeline: for each successful create_tweet, the link of
                     \* the item it published
    run_tweets,      \* number of successful create_tweet calls of this invocation
    pc,              \* position of the current invocation
    feed,            \* fetch_latest_news: feed.entries, with the page behind each link
    posted,          \* run_bot: posted
    news_list,       \* run_bot: news_list
    idx,             \* run_bot: position of `item` in news_list (1-based)
    success,         \* run_bot: success
    final_image_url, \* post_tweet: final_image_url, as the call that just returned
                     \* left it
    create_call,     \* the arguments of the create_tweet call made by that call of
                     \* post_tweet: <<>>, or one record of text and media_ids
    created_file,    \* the file download_image opened for writing in that call
    fail_cause       \* the step that made that call return False ("none" otherwise)

vars == <<file, file0, temp_files, tweets, run_tweets, pc, feed, posted, news_list, idx,
          success, final_image_url, create_call, created_file, fail_cause>>

(***************************************************************************)
(* Bounds of the model.                                                    *)
(***************************************************************************)
MaxTweets == 2    \* tweets on the timeline in one behaviour
MaxFeedLen == 2   \* entries in the feed of one invocation
MaxTextLen == 281 \* longest title and longest generated text

(***************************************************************************)
(* Python values.                                                          *)
(***************************************************************************)
None == "None"

\* `not x` for a value that is None or a str
Falsy(u) == u = None \/ u = ""

\* c * n
Rep(c, n) == [i \in 1..n |-> c]

UpperCase == <<"A","B","C","D","E","F","G","H","I","J","K","L","M",
               "N","O","P","Q","R","S","T","U","V","W","X","Y","Z">>
LowerCase == <<"a","b","c","d","e","f","g","h","i","j","k","l","m",
               "n","o","p","q","r","s","t","u","v","w","x","y","z">>

\* str.lower()
Lower(s) ==
    [i \in 1..Len(s) |->
        IF \E k \in 1..26 : UpperCase[k] = s[i]
        THEN LowerCase[CHOOSE k \in 1..26 : UpperCase[k] = s[i]]
        ELSE s[i]]

\* t in s, for strings
Contains(s, t) ==
    \E i \in 0..(Len(s) - Len(t)) : \A k \in 1..Len(t) : s[i + k] = t[k]

\* s.startswith(p)
StartsWith(s, p) == Len(s) >= Len(p) /\ \A k \in 1..Len(p) : s[k] = p[k]

Whitespace == {" ", "\n", "\t"}

\* str.strip()
Strip(s) ==
    IF \A i \in 1..Len(s) : s[i] \in Whitespace THEN <<>>
    ELSE LET lo == CHOOSE i \in 1..Len(s) :
                      s[i] \notin Whitespace /\ \A j \in 1..(i - 1) : s[j] \in Whitespace
             hi == CHOOSE i \in 1..Len(s) :
                      s[i] \notin Whitespace /\ \A j \in (i + 1)..Len(s) : s[j] \in Whitespace
         IN  SubSeq(s, lo, hi)

\* x in xs, for a list
InList(x, xs) == \E i \in 1..Len(xs) : xs[i] = x

\* d.get(k, default)
Get(d, k, default) == IF k \in DOMAIN d THEN d[k] ELSE default

\* xs[:n]
Take(xs, n) == SubSeq(xs, 1, IF Len(xs) < n THEN Len(xs) ELSE n)

(***************************************************************************)
(* fetch_latest_news                                                       *)
(***************************************************************************)
FeedLimit == 5

exclude_terms ==
    << <<"r","e","v","i","e","w">>,
       <<"i","n","t","e","r","v","i","e","w">>,
       <<"c","o","l","u","m","n">>,
       <<"e","d","i","t","o","r","i","a","l">>,
       <<"i","n","t","e","r","e","s","t">> >>

news_terms ==
    << <<"n","e","w","s">>,
       <<"p","r","e","s","s"," ","r","e","l","e","a","s","e">>,
       <<"a","n","n","o","u","n","c","e","m","e","n","t">> >>

image_prefix == <<"i","m","a","g","e","/">>

\* any(tag.term.lower() in [...] for tag in entry.tags)
HasNewsTag(entry) ==
    \E i \in 1..Len(entry.tags) : InList(Lower(entry.tags[i].term), news_terms)

\* any(term in title.lower() for term in exclude_terms)
HasExcludeTerm(title) ==
    LET lowered == Lower(title)
    IN  \E i \in 1..Len(exclude_terms) : Contains(lowered, exclude_terms[i])

\* is_news after lines 143-148
IsNews(entry) ==
    LET by_tags == IF "tags" \in DOMAIN entry THEN HasNewsTag(entry) ELSE FALSE
    IN  IF ~by_tags /\ ~HasExcludeTerm(entry.title) THEN TRUE ELSE by_tags

\* the for loop over entry.enclosures: href of the first image/* enclosure
RECURSIVE FirstImageEnclosure(_)
FirstImageEnclosure(encs) ==
    IF encs = <<>> THEN None
    ELSE IF StartsWith(Get(Head(encs), "type", <<>>), image_prefix)
         THEN Get(Head(encs), "href", None)
         ELSE FirstImageEnclosure(Tail(encs))

\* soup.find('img') on the parsed elements of an HTML fragment, then img.get('src')
FirstImgSrc(elements) ==
    LET imgs == {i \in 1..Len(elements) : elements[i].name = "img"}
    IN  IF imgs = {} THEN None
        ELSE LET img == elements[CHOOSE i \in imgs : \A j \in imgs : i <= j]
             IN  IF Falsy(Get(img, "src", None)) THEN None ELSE img.src

\* scrape_article_image, on what the GET of the article page answers
scrape_article_image(page) ==
    IF ~page.ok THEN None                \* status != 200, or an exception
    ELSE IF ~Falsy(page.og) THEN page.og
    ELSE IF ~Falsy(page.img) /\ page.img_http THEN page.img
    ELSE None

\* image_url after the if/elif/elif chain of lines 152-164
EntryImage(entry) ==
    IF "media_content" \in DOMAIN entry /\ entry.media_content # <<>>
    THEN Get(entry.media_content[1], "url", None)
    ELSE IF "enclosures" \in DOMAIN entry /\ entry.enclosures # <<>>
    THEN FirstImageEnclosure(entry.enclosures)
    ELSE IF "content" \in DOMAIN entry /\ entry.content # <<>>
    THEN FirstImgSrc(entry.content[1].value)
    ELSE None

\* image_url after lines 152-166
ResolveImage(e) ==
    IF Falsy(EntryImage(e.entry)) THEN scrape_article_image(e.page) ELSE EntryImage(e.entry)

\* entry.title or entry.link raises AttributeError
EntryRaises(e) == "title" \notin DOMAIN e.entry \/ "link" \notin DOMAIN e.entry

\* the body of the loop over feed.entries[:5]; the except of line 168 ends the loop
RECURSIVE FetchEntries(_)
FetchEntries(es) ==
    IF es = <<>> THEN <<>>
    ELSE LET e == Head(es)
         IN  IF EntryRaises(e) THEN <<>>
             ELSE IF ~IsNews(e.entry) THEN FetchEntries(Tail(es))
             ELSE << [title |-> e.entry.title, link |-> e.entry.link,
                      image_url |-> ResolveImage(e)] >> \o FetchEntries(Tail(es))

fetch_latest_news(entries) == FetchEntries(Take(entries, FeedLimit))

(***************************************************************************)
(* rewrite_news, search_google_image, post_tweet: the pure parts           *)
(***************************************************************************)
\* rewrite_news, on what the chat completion call answers; an API error and a
\* message without content both end in the except branch
rewrite_news(title, response) ==
    IF response.error THEN title ELSE Strip(response.content)

\* search_google_image, on the configuration and what the search call answers
search_google_image(response) ==
    IF ~response.keys THEN None
    ELSE IF response.ok /\ response.items # <<>> THEN response.items[1].link
    ELSE None

TweetLimit == 280
TruncateAt == 277

Truncate_NoCut(t) ==
    IF Len(t) > TweetLimit THEN SubSeq(t, 1, TweetLimit) \o <<".", ".", ".">> ELSE t

\* post_tweet, lines 199-200
Truncate(t) ==
    IF Len(t) > TweetLimit THEN SubSeq(t, 1, TruncateAt) \o <<".", ".", ".">> ELSE t

\* mimetypes.guess_extension(content_type) or '.jpg', then the temp file's name
TempFileName(content_type) ==
    IF content_type = "image/png" THEN "temp_image.png" ELSE "temp_image.jpg"

(***************************************************************************)
(* posted.json                                                             *)
(***************************************************************************)
NoFile == [exists |-> FALSE, valid |-> FALSE, list |-> <<>>]
Corrupt == [exists |-> TRUE, valid |-> FALSE, list |-> <<>>]

\* json.dump(posted, f, indent=2) into a freshly truncated file
json_dump(list) == [exists |-> TRUE, valid |-> TRUE, list |-> list]

\* json.load(f) of a file that parses
json_load(f) == f.list

(***************************************************************************)
(* Inputs: what the feed, the article pages, the text generation, the      *)
(* image search, the image host, the platform and the file system answer.  *)
(***************************************************************************)
Link1 == "https://ann.example/news/1"
Link2 == "https://ann.example/news/2"

TitleShort == <<"N","a","r","u","t","o"," ","f","i","l","m">>
TitleReview == <<"R","e","v","i","e","w",":"," ","B","o","r","u","t","o">>
TitleLong == Rep("a", MaxTextLen)

TagNews == [term |-> <<"N","e","w","s">>]
TagAnime == [term |-> <<"A","n","i","m","e">>]

ImageUrl == "https://img.example/cover.jpg"
EmbeddedUrl == "https://img.example/embedded.jpg"
OgUrl == "https://ann.example/og.jpg"
SearchUrl == "https://search.example/found.jpg"

AudioEnclosure ==
    [type |-> <<"a","u","d","i","o","/","m","p","e","g">>, href |-> "https://ann.example/a.mp3"]
ImageEnclosure ==
    [type |-> <<"i","m","a","g","e","/","j","p","e","g">>, href |-> ImageUrl]

PageDown == [ok |-> FALSE, og |-> None, img |-> None, img_http |-> FALSE]
PageOg == [ok |-> TRUE, og |-> OgUrl, img |-> None, img_http |-> FALSE]
PageRelativeImg == [ok |-> TRUE, og |-> None, img |-> "/logo.png", img_http |-> FALSE]

HtmlWithImg == << [name |-> "p"], [name |-> "img", src |-> EmbeddedUrl] >>

\* The feed entries of the model, each with the article page behind its link.
RunEntries ==
    { \* tagged news with an image enclosure
      [entry |-> [title |-> TitleShort, link |-> Link1, tags |-> <<TagNews>>,
                  enclosures |-> <<AudioEnclosure, ImageEnclosure>>], page |-> PageOg],
      \* no tags, no image in the entry or on its page
      [entry |-> [title |-> TitleLong, link |-> Link2, media_content |-> <<>>,
                  enclosures |-> <<>>, content |-> <<>>], page |-> PageRelativeImg],
      \* no tags, a title with an excluded term
      [entry |-> [title |-> TitleReview, link |-> Link1,
                  media_content |-> << [url |-> ImageUrl] >>], page |-> PageOg],
      \* tags, none of them a news tag, and a title without excluded terms
      [entry |-> [title |-> TitleShort, link |-> Link1, tags |-> <<TagAnime>>,
                  media_content |-> << [url |-> ImageUrl] >>], page |-> PageDown],
      \* enclosures, none of them an image, and an embedded HTML image
      [entry |-> [title |-> TitleLong, link |-> Link2, tags |-> <<TagNews>>,
                  enclosures |-> <<AudioEnclosure>>,
                  content |-> << [value |-> HtmlWithImg] >>], page |-> PageDown],
      \* an entry without a title
      [entry |-> [link |-> Link2], page |-> PageDown] }

RECURSIVE SeqsUpTo(_, _)
SeqsUpTo(S, n) ==
    IF n = 0 THEN {<<>>}
    ELSE LET shorter == SeqsUpTo(S, n - 1)
         IN  shorter \cup {Append(q, x) : q \in shorter, x \in S}

RunFeeds == SeqsUpTo(RunEntries, MaxFeedLen)

Pad(s) == <<" ">> \o s \o <<"\n">>

GptResponses ==
    { [error |-> TRUE, content |-> <<>>] } \cup
    { [error |-> FALSE, content |-> Pad(Rep("b", n))] : n \in {TweetLimit, MaxTextLen} }

SearchResponses ==
    { [keys |-> FALSE, ok |-> FALSE, items |-> <<>>],
      [keys |-> TRUE, ok |-> TRUE, items |-> <<>>],
      [keys |-> TRUE, ok |-> TRUE, items |-> << [link |-> SearchUrl] >>] }

ContentTypes == {"image/png", "image/jpeg"}

InitialFiles == {NoFile, Corrupt, json_dump(<<Link1>>)}

(***************************************************************************)
(* The script: each invocation is `run_bot()` under the try of __main__.   *)
(* The steps of one invocation: load_posted, feedparser.parse, the rest of *)
(* fetch_latest_news, then per loop iteration the head of the loop, the    *)
(* calls of lines 240-241 and lines 242-245.                               *)
(***************************************************************************)
item == news_list[idx]

NoLocals ==
    /\ final_image_url = None
    /\ create_call = <<>>
    /\ created_file = None
    /\ success = FALSE
    /\ fail_cause = "none"

Init ==
    /\ file \in InitialFiles
    /\ file0 = file
    /\ temp_files = {}
    /\ tweets = <<>>
    /\ run_tweets = 0
    /\ pc = "start"
    /\ feed = <<>>
    /\ posted = <<>>
    /\ news_list = <<>>
    /\ idx = 0
    /\ NoLocals

\* load_posted, line 229; a JSONDecodeError leaves run_bot for the except of __main__
Load ==
    /\ pc = "start"
    /\ IF ~file.exists THEN posted' = <<>> /\ pc' = "fetch"
       ELSE IF file.valid THEN posted' = json_load(file) /\ pc' = "fetch"
       ELSE posted' = posted /\ pc' = "crashed"
    /\ UNCHANGED <<file, file0, temp_files, tweets, run_tweets, feed, news_list, idx,
                   final_image_url, create_call, created_file, success, fail_cause>>

\* feedparser.parse, line 134
ParseFeed ==
    /\ pc = "fetch"
    /\ \E f \in RunFeeds : feed' = f
    /\ pc' = "filter"
    /\ UNCHANGED <<file, file0, temp_files, tweets, run_tweets, posted, news_list, idx,
                   final_image_url, create_call, created_file, success, fail_cause>>

\* the rest of fetch_latest_news, and lines 232-234 of run_bot
FilterFeed ==
    /\ pc = "filter"
    /\ news_list' = fetch_latest_news(feed)
    /\ feed' = <<>>
    /\ IF news_list' = <<>> THEN pc' = "done" /\ idx' = idx
       ELSE pc' = "loop" /\ idx' = 1
    /\ UNCHANGED <<file, file0, temp_files, tweets, run_tweets, posted,
                   final_image_url, create_call, created_file, success, fail_cause>>

\* the for loop is exhausted: its else, line 247
LoopEnd ==
    /\ pc = "loop"
    /\ idx > Len(news_list)
    /\ pc' = "done"
    /\ UNCHANGED <<file, file0, temp_files, tweets, run_tweets, feed, posted, news_list, idx,
                   final_image_url, create_call, created_file, success, fail_cause>>

\* lines 237-238
LoopSkip ==
    /\ pc = "loop"
    /\ idx <= Len(news_list)
    /\ InList(item.link, posted)
    /\ idx' = idx + 1
    /\ UNCHANGED <<file, file0, temp_files, tweets, run_tweets, pc, feed, posted, news_list,
                   final_image_url, create_call, created_file, success, fail_cause>>

\* post_tweet returns `ok`, leaving the temp files and the timeline given; `call`
\* holds the arguments of its create_tweet call, `made` the file download_image
\* opened, `cause` the step that failed
Returned(url, call, made, files, tws, ok, cause) ==
    /\ tweets' = tws
    /\ run_tweets' = run_tweets + (Len(tws) - Len(tweets))
    /\ final_image_url' = url
    /\ create_call' = call
    /\ created_file' = made
    /\ temp_files' = files
    /\ success' = ok
    /\ fail_cause' = cause
    /\ pc' = "returned"

\* the finally of lines 216-217, then the return of line 215 or the except of
\* lines 221-223; an exception of os.remove replaces what the try was leaving with
Finally(url, call, tf, files, tws, leaving, cause) ==
    \/ Returned(url, call, tf, files \ {tf}, tws, leaving = "return_true", cause)
    \/ Returned(url, call, tf, files, tws, FALSE,
                IF cause = "none" THEN "remove" ELSE cause)

\* lines 211-215: media_upload raises, create_tweet raises, or the tweet is created
TryUpload(t, url, tf, files) ==
    LET call == << [text |-> t, media_ids |-> <<"media_id">>] >>
    IN  \/ Finally(url, <<>>, tf, files, tweets, "raise", "upload")
        \/ Finally(url, call, tf, files, tweets, "raise", "create")
        \/ /\ Len(tweets) < MaxTweets
           /\ Finally(url, call, tf, files, Append(tweets, item.link),
                      "return_true", "none")

\* download_image at line 209 and the branches of lines 210 and 218-220: the GET
\* fails or is not a 200; the file is opened and a chunk fails; the file is written
Download(t, url) ==
    \/ Returned(url, <<>>, None, temp_files, tweets, FALSE, "download")
    \/ \E ct \in ContentTypes :
         LET name == TempFileName(ct)
         IN  \/ Returned(url, <<>>, name, temp_files \cup {name}, tweets,
                         FALSE, "download")
             \/ TryUpload(t, url, name, temp_files \cup {name})

post_tweet_TextOnly(t0, image_url) ==
    LET t == Truncate(t0)
    IN  \E r \in SearchResponses :
          LET url == IF Falsy(image_url) THEN search_google_image(r) ELSE image_url
          IN  IF Falsy(url)
              THEN Returned(url, << [text |-> t, media_ids |-> <<>>] >>, None,
                            temp_files, Append(tweets, item.link), TRUE, "none")
              ELSE Download(t, url)

\* post_tweet
post_tweet(t0, image_url) ==
    LET t == Truncate(t0)
    IN  \E r \in SearchResponses :
          LET url == IF Falsy(image_url) THEN search_google_image(r) ELSE image_url
          IN  IF Falsy(url)
              THEN Returned(url, <<>>, None, temp_files, tweets, FALSE, "no_image")
              ELSE Download(t, url)

\* lines 240-241
Attempt ==
    /\ pc = "loop"
    /\ idx <= Len(news_list)
    /\ ~InList(item.link, posted)
    /\ \E g \in GptResponses : post_tweet(rewrite_news(item.title, g), item.image_url)
    /\ UNCHANGED <<file, file0, feed, posted, news_list, idx>>

\* save_posted: the file that open(..., "w") and json.dump leave behind
save_posted(list, outcome) ==
    CASE outcome = "ok" -> json_dump(list)
      [] outcome = "open_failed" -> file
      [] outcome = "write_failed" -> Corrupt

AfterPost_AlwaysRecord ==
    /\ pc = "returned"
    /\ posted' = Append(posted, item.link)
    /\ file' = save_posted(posted', "ok")
    /\ pc' = "done"
    /\ final_image_url' = None /\ create_call' = <<>>
    /\ created_file' = None /\ fail_cause' = "none"
    /\ UNCHANGED <<file0, temp_files, tweets, run_tweets, feed, news_list, idx, success>>

\* lines 242-245, and the next iteration when post_tweet returned False; an
\* exception of save_posted leaves run_bot for the except of __main__
AfterPost ==
    /\ pc = "returned"
    /\ IF success
       THEN /\ posted' = Append(posted, item.link)
            /\ \E outcome \in {"ok", "open_failed", "write_failed"} :
                 /\ file' = save_posted(posted', outcome)
                 /\ pc' = IF outcome = "ok" THEN "done" ELSE "crashed"
            /\ idx' = idx
       ELSE /\ pc' = "loop" /\ idx' = idx + 1
            /\ UNCHANGED <<posted, file>>
    /\ final_image_url' = None /\ create_call' = <<>>
    /\ created_file' = None /\ fail_cause' = "none"
    /\ UNCHANGED <<file0, temp_files, tweets, run_tweets, feed, news_list, success>>

\* the process has ended; the scheduler starts the script again
NextRun ==
    /\ pc \in {"done", "crashed"}
    /\ run_tweets' = 0
    /\ pc' = "start"
    /\ posted' = <<>> /\ news_list' = <<>> /\ idx' = 0 /\ success' = FALSE
    /\ UNCHANGED <<file, file0, temp_files, tweets, feed,
                   final_image_url, create_call, created_file, fail_cause>>

Next ==
    \/ Load
    \/ ParseFeed
    \/ FilterFeed
    \/ LoopEnd
    \/ LoopSkip
    \/ Attempt
    \/ AfterPost
    \/ NextRun

Spec == Init /\ [][Next]_vars

(***************************************************************************)
(* Properties                                                              *)
(***************************************************************************)
Links == {Link1, Link2}

\* the record a file holds: the empty list when there is no file
RecordOf(f) == IF f.exists THEN f.list ELSE <<>>

\* C1: no item link is published twice: over all invocations, create_tweet succeeds
\* at most once for any given link.
C1_NoLinkPublishedTwice ==
    \A l \in Links : Cardinality({i \in 1..Len(tweets) : tweets[i] = l}) <= 1

\* C2: at most one tweet is created within one invocation of run_bot.
C2_OneTweetPerRun == run_tweets <= 1

\* C3: the text passed to create_tweet has at most 280 characters.
C3_TweetTextWithinLimit ==
    create_call # <<>> => Len(create_call[1].text) <= 280

\* C3 witness: create_tweet was called for an item whose title is longer than the
\* limit and whose rewrite fell back to the title, with the title cut to 277
\* characters and "..." appended.
C3_Witness ==
    /\ pc = "returned"
    /\ create_call # <<>>
    /\ Len(item.title) > 280
    /\ create_call[1].text = SubSeq(item.title, 1, 277) \o <<".", ".", ".">>

\* C4: when an invocation has ended, the persisted record is the initial record
\* followed by the links published so far, in publish order.
C4_RecordIsInitialPlusPublished ==
    (pc \in {"done", "crashed"} /\ (~file0.exists \/ file0.valid))
        => /\ ~file.exists \/ file.valid
           /\ RecordOf(file) = RecordOf(file0) \o tweets

PublishFailures == {"download", "upload", "create"}

\* C5: when the image download fails, or media_upload or create_tweet raises,
\* post_tweet returns False, neither that call nor the step of run_bot after it
\* changes the in-memory record or the record file, and the link is not in the
\* record file afterwards.
C5_RecordKeptOnPublishFailure ==
    [][ /\ (pc = "loop" /\ pc' = "returned" /\ fail_cause' \in PublishFailures)
            => (~success' /\ posted' = posted /\ file' = file)
        /\ (pc = "returned" /\ fail_cause \in PublishFailures)
            => /\ posted' = posted
               /\ file' = file
               /\ ~InList(item.link, RecordOf(file')) ]_vars

\* C5 witness: in an invocation after one that tweeted, with a record on disk, post_tweet has just
\* returned False after a failed download, upload or create_tweet, and the
\* item's link is not in the record file.
C5_Witness ==
    /\ tweets # <<>>
    /\ run_tweets = 0
    /\ pc = "returned"
    /\ fail_cause \in PublishFailures
    /\ ~success
    /\ file.valid
    /\ ~InList(item.link, file.list)

\* C6: when post_tweet returns, the temp file download_image created in that
\* call no longer exists.
C6_TempFileRemoved ==
    (pc = "returned" /\ created_file # None) => created_file \notin temp_files

\* C7: for an item without an image for which the image search finds none,
\* post_tweet creates no tweet and returns False with the record unchanged, and
\* run_bot moves on to the next item; create_tweet is never called without media.
C7_NoImageNoTweet ==
    [][ /\ (pc = "loop" /\ pc' = "returned" /\ Falsy(item.image_url)
                /\ Falsy(final_image_url'))
            => /\ tweets' = tweets
               /\ create_call' = <<>>
               /\ ~success'
               /\ posted' = posted
               /\ file' = file
        /\ (pc = "returned" /\ Falsy(final_image_url))
            => /\ pc' = "loop"
               /\ idx' = idx + 1
               /\ tweets' = tweets
               /\ posted' = posted
               /\ file' = file
        /\ create_call' # <<>> => create_call'[1].media_ids # <<>> ]_vars

\* C7 witness: post_tweet has just returned for an item that has no image and for
\* which the search found none, nothing was tweeted, and a next item is waiting.
C7_Witness ==
    /\ pc = "returned"
    /\ Falsy(item.image_url)
    /\ Falsy(final_image_url)
    /\ ~success
    /\ tweets = <<>>
    /\ idx < Len(news_list)

\* C8: a record file with corrupt content loads as the empty record and the
\* invocation goes on to fetch the feed.
C8_CorruptRecordLoadsEmpty ==
    [][ (pc = "start" /\ file.exists /\ ~file.valid)
            => (posted' = <<>> /\ pc' = "fetch") ]_vars

\* classification by tag metadata when the entry has tags, by the title's
\* excluded terms only when it has none
IsNewsByTagsFirst(entry) ==
    IF "tags" \in DOMAIN entry THEN HasNewsTag(entry) ELSE ~HasExcludeTerm(entry.title)

RECURSIVE NewsByTagsFirst(_)
NewsByTagsFirst(es) ==
    IF es = <<>> THEN <<>>
    ELSE IF EntryRaises(Head(es)) THEN <<>>
    ELSE IF ~IsNewsByTagsFirst(Head(es).entry) THEN NewsByTagsFirst(Tail(es))
    ELSE << [title |-> Head(es).entry.title, link |-> Head(es).entry.link] >>
            \o NewsByTagsFirst(Tail(es))

\* C9: the fetched items are the entries that are news by their tags when they
\* have tags, and by the title heuristic only when they have none.
C9_TagsDecideWhenPresent ==
    [][ pc = "filter"
            => [i \in 1..Len(news_list') |->
                    [title |-> news_list'[i].title, link |-> news_list'[i].link]]
               = NewsByTagsFirst(Take(feed, 5)) ]_vars

\* the image each source of the entry yields, in the order of the chain
MediaImage(entry) ==
    IF "media_content" \in DOMAIN entry /\ entry.media_content # <<>>
    THEN Get(entry.media_content[1], "url", None) ELSE None

EnclosureImage(entry) ==
    IF "enclosures" \in DOMAIN entry THEN FirstImageEnclosure(entry.enclosures) ELSE None

EmbeddedImage(entry) ==
    IF "content" \in DOMAIN entry /\ entry.content # <<>>
    THEN FirstImgSrc(entry.content[1].value) ELSE None

\* the first source, in order, that yields a URL
ChainImage(e) ==
    IF ~Falsy(MediaImage(e.entry)) THEN MediaImage(e.entry)
    ELSE IF ~Falsy(EnclosureImage(e.entry)) THEN EnclosureImage(e.entry)
    ELSE IF ~Falsy(EmbeddedImage(e.entry)) THEN EmbeddedImage(e.entry)
    ELSE scrape_article_image(e.page)

RECURSIVE ImagesByChain(_)
ImagesByChain(es) ==
    IF es = <<>> THEN <<>>
    ELSE IF EntryRaises(Head(es)) THEN <<>>
    ELSE IF ~IsNews(Head(es).entry) THEN ImagesByChain(Tail(es))
    ELSE <<ChainImage(Head(es))>> \o ImagesByChain(Tail(es))

\* C10: the image of every fetched item is the one the first source of the chain
\* media attachment, image enclosure, embedded img tag, scraped page yields.
C10_ImageIsFirstOfChain ==
    [][ pc = "filter"
            => [i \in 1..Len(news_list') |-> news_list'[i].image_url]
               = ImagesByChain(Take(feed, 5)) ]_vars

====
